---- MODULE Spec2Model ----
(***************************************************************************)
(* Model of the Iris classification service: backend/app.py (Flask API)    *)
(* and the artifact produced by model/train.py.                            *)
(*                                                                         *)
(* Python values are encoded as follows.                                   *)
(*   None / optional values : <<>> is None, <<x>> is the value x           *)
(*   a JSON field value     : [t |-> tag, v |-> integer]                   *)
(*   a Python float         : [k |-> "fin", v |-> n] or [k |-> "nan", ..]  *)
(*   a probability          : an integer number of 1/Grain units           *)
(***************************************************************************)
EXTENDS Integers, Sequences, FiniteSets, TLC

VARIABLES pc, disk, model, request, response, oracle

vars == <<pc, disk, model, request, response, oracle>>

(* ------------------------------ bounds --------------------------------- *)
\* largest finite measurement a request carries
MaxVal == 2
\* largest label a foreign artifact may return (the label table has 3 rows)
MaxLabel == 3
\* a foreign artifact may return labels -NegLabels .. -1
NegLabels == 4
\* probabilities are multiples of 1/Grain
Grain == 4

None == <<>>
Some(x) == <<x>>

(* --------------------------- program constants ------------------------- *)
IRIS_CLASSES_Rot == <<"Versicolor", "Virginica", "Setosa">>
IRIS_CLASSES == <<"Setosa", "Versicolor", "Virginica">>

required_fields == <<"sepal_length", "sepal_width", "petal_length", "petal_width">>

Range(s) == {s[i] : i \in DOMAIN s}

(* ------------------------------ artifacts ------------------------------ *)
\* The classifier train.py fits: SVC(kernel='linear') on targets 0, 1, 2.
\* SVC without probability=True has no predict_proba.
TrainedArtifact == [classes |-> 0..2, proba |-> FALSE]

\* What joblib.load may return from MODEL_PATH: the trained artifact, a
\* three-class classifier with probability estimation, classifiers whose
\* labels leave the table, and an object whose predict always raises.
Artifacts ==
    { TrainedArtifact,
      [classes |-> 0..2, proba |-> TRUE],
      [classes |-> 0..MaxLabel, proba |-> TRUE],
      [classes |-> (0 - NegLabels)..(0 - 1), proba |-> FALSE],
      [classes |-> {}, proba |-> FALSE] }

\* The file at MODEL_PATH when the process starts.
DiskStates ==
    { [state |-> "missing", artifact |-> TrainedArtifact],
      [state |-> "corrupt", artifact |-> TrainedArtifact] }
    \cup { [state |-> "present", artifact |-> a] : a \in Artifacts }

\* load_model: joblib.load(MODEL_PATH); FileNotFoundError and any other
\* Exception give False and leave the global untouched.
load_model(d, m) ==
    IF d.state = "present"
    THEN [ok |-> TRUE, model |-> Some(d.artifact)]
    ELSE [ok |-> FALSE, model |-> m]

(* ------------------------------ requests ------------------------------- *)
RequiredSet == Range(required_fields)

JsonValues ==
    { [t |-> "num", v |-> n] : n \in (0 - 1)..MaxVal }
    \cup { [t |-> "numstr", v |-> 1],   \* the string "1.0"
           [t |-> "str", v |-> 0],      \* the string "abc"
           [t |-> "null", v |-> 0],     \* null
           [t |-> "huge", v |-> 1],     \* the integer 10**400
           [t |-> "nan", v |-> 0] }     \* NaN

Objects ==
    UNION { [S -> JsonValues] : S \in SUBSET RequiredSet }
    \cup { [f \in {"other"} |-> [t |-> "num", v |-> 1]] }

Arrays == { <<>>, <<"sepal_length">>, required_fields }

AbsentBody == [kind |-> "absent", val |-> 0]
NullBody == [kind |-> "null", val |-> 0]

Bodies ==
    { AbsentBody, [kind |-> "malformed", val |-> 0], NullBody }
    \cup { [kind |-> "scalar", val |-> n] : n \in 0..1 }
    \cup { [kind |-> "array", val |-> a] : a \in Arrays }
    \cup { [kind |-> "object", val |-> o] : o \in Objects }

Requests ==
    { [route |-> "/", body |-> AbsentBody],
      [route |-> "/health", body |-> AbsentBody] }
    \cup { [route |-> "/predict", body |-> b] : b \in Bodies }

\* request.get_json(): a body that is not JSON-typed gives None or raises,
\* depending on the framework release; malformed JSON raises BadRequest.
get_json(b) ==
    CASE b.kind = "absent" ->
           { [raised |-> FALSE, exc |-> "", data |-> NullBody],
             [raised |-> TRUE, exc |-> "UnsupportedMediaType", data |-> NullBody] }
      [] b.kind = "malformed" ->
           { [raised |-> TRUE, exc |-> "BadRequest", data |-> NullBody] }
      [] OTHER ->
           { [raised |-> FALSE, exc |-> "", data |-> b] }

(* --------------------------- Python semantics -------------------------- *)
\* bool(data)
Truthy(data) ==
    CASE data.kind = "null" -> FALSE
      [] data.kind = "scalar" -> data.val # 0
      [] data.kind = "array" -> Len(data.val) > 0
      [] data.kind = "object" -> DOMAIN data.val # {}
      [] OTHER -> FALSE

\* `field in data`: key test on a dict, element test on a list
Contains(data, field) ==
    IF data.kind = "object"
    THEN field \in DOMAIN data.val
    ELSE field \in Range(data.val)

NoFloat == [k |-> "nan", v |-> 0]

\* float(x)
float(x) ==
    CASE x.t = "num" -> [exc |-> "", f |-> [k |-> "fin", v |-> x.v]]
      [] x.t = "numstr" -> [exc |-> "", f |-> [k |-> "fin", v |-> x.v]]
      [] x.t = "nan" -> [exc |-> "", f |-> [k |-> "nan", v |-> 0]]
      [] x.t = "str" -> [exc |-> "ValueError", f |-> NoFloat]
      [] x.t = "null" -> [exc |-> "TypeError", f |-> NoFloat]
      [] x.t = "huge" -> [exc |-> "OverflowError", f |-> NoFloat]

\* float(data[field]); indexing a list with a string raises TypeError
float_of(data, field) ==
    IF data.kind = "object"
    THEN float(data.val[field])
    ELSE [exc |-> "TypeError", f |-> NoFloat]

\* f <= 0 on floats: every comparison with NaN is False
LeqZero(f) == f.k = "fin" /\ f.v <= 0

\* seq[i] with Python's negative indexing
PyIndex(s, i) ==
    IF i >= 0 /\ i < Len(s) THEN [exc |-> "", item |-> s[i + 1]]
    ELSE IF i < 0 /\ i >= 0 - Len(s) THEN [exc |-> "", item |-> s[Len(s) + i + 1]]
    ELSE [exc |-> "IndexError", item |-> ""]

SeqMax(s) == CHOOSE x \in Range(s) : \A y \in Range(s) : x >= y
SeqMin(s) == CHOOSE x \in Range(s) : \A y \in Range(s) : x =< y

RECURSIVE SeqSum(_)
SeqSum(s) == IF s = <<>> THEN 0 ELSE Head(s) + SeqSum(Tail(s))

(* ------------------------- the loaded classifier ----------------------- *)
NoCall == [called |-> FALSE, raised |-> FALSE, label |-> 0]

Finite(features) == \A i \in DOMAIN features : features[i].k = "fin"

\* model.predict(input_array)[0]: one of the artifact's labels; it raises
\* when the artifact cannot classify, and may raise on a non-finite sample.
model_predict(a, features) ==
    { [called |-> TRUE, raised |-> FALSE, label |-> l] : l \in a.classes }
    \cup (IF a.classes = {} \/ ~Finite(features)
          THEN { [called |-> TRUE, raised |-> TRUE, label |-> 0] }
          ELSE {})

\* model.predict_proba(input_array)[0]: one probability per class, summing
\* to 1; None stands for the call raising (no probability support).
model_predict_proba(a) ==
    IF a.proba
    THEN { Some(p) : p \in { q \in [1..Cardinality(a.classes) -> 0..Grain] :
                              SeqSum(q) = Grain } }
    ELSE { None }

(* ------------------------------ responses ------------------------------ *)
Error(status, text, arg) ==
    [status |-> status, body |-> [error |-> [text |-> text, arg |-> arg]]]

MsgNotLoaded == "Model not loaded. Please ensure the model file exists."
MsgNoData == "No JSON data provided"
MsgMissing == "Missing required fields: "
MsgNumbers == "All input values must be valid numbers"
MsgPositive == "All measurements must be positive numbers"
MsgFailed == "Prediction failed: "

\* the outer `except Exception as e`
Failed(exc) == Error(500, MsgFailed, <<exc>>)

\* [field for field in required_fields if field not in data]
missing_fields_All(data) == required_fields
missing_fields(data) ==
    SelectSeq(required_fields, LAMBDA field : ~Contains(data, field))

\* the list display of four float(...) calls: evaluated left to right, the
\* first exception leaves the display
features_of(data) ==
    LET conv == [i \in 1..4 |-> float_of(data, required_fields[i])]
        bad == {i \in 1..4 : conv[i].exc # ""}
        first == CHOOSE i \in bad : \A j \in bad : i =< j
    IN IF bad = {}
       THEN [exc |-> "", fs |-> [i \in 1..4 |-> conv[i].f]]
       ELSE [exc |-> conv[first].exc, fs |-> <<>>]

\* any(f <= 0 for f in features)
any_nonpositive_Strict(features) ==
    \E i \in DOMAIN features : features[i].k = "fin" /\ features[i].v < 0
any_nonpositive(features) == \E i \in DOMAIN features : LeqZero(features[i])

\* lines 76-117 of predict: the checks made before the classifier is used.
\* done = TRUE carries the early response, done = FALSE the feature vector.
validate(m, gj) ==
    LET Early(r) == [done |-> TRUE, resp |-> r, fs |-> <<>>] IN
    IF m = None THEN Early(Error(500, MsgNotLoaded, <<>>))
    ELSE IF gj.raised THEN Early(Failed(gj.exc))
    ELSE IF ~Truthy(gj.data) THEN Early(Error(400, MsgNoData, <<>>))
    ELSE IF gj.data.kind = "scalar" THEN Early(Failed("TypeError"))
    ELSE IF missing_fields(gj.data) # <<>>
         THEN Early([status |-> 400,
                     body |-> [error |-> [text |-> MsgMissing,
                                          arg |-> missing_fields(gj.data)],
                               required_fields |-> required_fields]])
    ELSE LET ft == features_of(gj.data) IN
         IF ft.exc \in {"ValueError", "TypeError"}
         THEN Early(Error(400, MsgNumbers, <<>>))
         ELSE IF ft.exc # "" THEN Early(Failed(ft.exc))
         ELSE IF any_nonpositive(ft.fs)
              THEN Early(Error(400, MsgPositive, <<>>))
              ELSE [done |-> FALSE, resp |-> Failed(""), fs |-> ft.fs]

\* float(max(probabilities)) under the bare `except:` giving None
confidence_Min(pr) == IF pr = None THEN None ELSE Some(SeqMin(pr[1]))
confidence(pr) == IF pr = None THEN None ELSE Some(SeqMax(pr[1]))

\* lines 119-148 of predict: classification and the response
infer(features, cls, pr) ==
    IF cls.raised THEN Failed("ValueError")
    ELSE LET name == PyIndex(IRIS_CLASSES, cls.label) IN
         IF name.exc # "" THEN Failed(name.exc)
         ELSE [status |-> 200,
               body |-> [prediction |-> name.item,
                         prediction_index |-> cls.label,
                         confidence |-> confidence(pr),
                         input_data |-> [sepal_length |-> features[1],
                                         sepal_width |-> features[2],
                                         petal_length |-> features[3],
                                         petal_width |-> features[4]],
                         all_classes |-> IRIS_CLASSES]]

(* ------------------------------- actions ------------------------------- *)
NoOracle == [gj |-> [raised |-> FALSE, exc |-> "", data |-> NullBody],
             cls |-> NoCall, pr |-> None]

\* Module import: app created, model = None, nothing loaded yet.
Init ==
    /\ pc = "init"
    /\ disk \in DiskStates
    /\ model = None
    /\ request = None
    /\ response = None
    /\ oracle = NoOracle

\* The __main__ block: load the model, run the server only if that worked.
main ==
    /\ pc = "init"
    /\ LET r == load_model(disk, model) IN
         /\ model' = r.model
         /\ pc' = IF r.ok THEN "serving" ELSE "exited"
    /\ UNCHANGED <<disk, request, response, oracle>>

\* The module imported by a WSGI runner or a test client: __name__ is not
\* '__main__', load_model is never called, the app object serves.
wsgi ==
    /\ pc = "init"
    /\ pc' = "serving"
    /\ UNCHANGED <<disk, model, request, response, oracle>>

\* A request is routed to its handler.
receive ==
    /\ pc = "serving"
    /\ \E r \in Requests : request' = Some(r)
    /\ response' = None
    /\ oracle' = NoOracle
    /\ pc' = "handling"
    /\ UNCHANGED <<disk, model>>

home ==
    /\ pc = "handling"
    /\ request[1].route = "/"
    /\ response' = Some([status |-> 200,
                         body |-> [message |-> "Iris Flower Classification API is running!",
                                   endpoints |-> [predict |-> "POST /predict",
                                                  health |-> "GET /health"]]])
    /\ pc' = "responded"
    /\ UNCHANGED <<disk, model, request, oracle>>

health ==
    /\ pc = "handling"
    /\ request[1].route = "/health"
    /\ response' = Some([status |-> 200,
                         body |-> [status |-> "healthy",
                                   model_status |-> IF model # None THEN "loaded"
                                                    ELSE "not loaded"]])
    /\ pc' = "responded"
    /\ UNCHANGED <<disk, model, request, oracle>>

predict_Unloads ==
    /\ pc = "handling"
    /\ request[1].route = "/predict"
    /\ \E gj \in (IF model = None THEN {NoOracle.gj} ELSE get_json(request[1].body)) :
         LET v == validate(model, gj) IN
           IF v.done
           THEN /\ response' = Some(v.resp)
                /\ oracle' = [NoOracle EXCEPT !.gj = gj]
           ELSE \E cls \in model_predict(model[1], v.fs) :
                  IF cls.raised \/ PyIndex(IRIS_CLASSES, cls.label).exc # ""
                  THEN /\ response' = Some(infer(v.fs, cls, None))
                       /\ oracle' = [gj |-> gj, cls |-> cls, pr |-> None]
                  ELSE \E pr \in model_predict_proba(model[1]) :
                         /\ response' = Some(infer(v.fs, cls, pr))
                         /\ oracle' = [gj |-> gj, cls |-> cls, pr |-> pr]
    /\ model' = IF response'[1].status = 500 THEN None ELSE model
    /\ pc' = "responded"
    /\ UNCHANGED <<disk, request>>

predict ==
    /\ pc = "handling"
    /\ request[1].route = "/predict"
    /\ \E gj \in (IF model = None THEN {NoOracle.gj} ELSE get_json(request[1].body)) :
         LET v == validate(model, gj) IN
           IF v.done
           THEN /\ response' = Some(v.resp)
                /\ oracle' = [NoOracle EXCEPT !.gj = gj]
           ELSE \E cls \in model_predict(model[1], v.fs) :
                  IF cls.raised \/ PyIndex(IRIS_CLASSES, cls.label).exc # ""
                  THEN /\ response' = Some(infer(v.fs, cls, None))
                       /\ oracle' = [gj |-> gj, cls |-> cls, pr |-> None]
                  ELSE \E pr \in model_predict_proba(model[1]) :
                         /\ response' = Some(infer(v.fs, cls, pr))
                         /\ oracle' = [gj |-> gj, cls |-> cls, pr |-> pr]
    /\ pc' = "responded"
    /\ UNCHANGED <<disk, model, request>>

\* The response is sent; the server waits for the next request.
reply ==
    /\ pc = "responded"
    /\ pc' = "serving"
    /\ request' = None
    /\ response' = None
    /\ oracle' = NoOracle
    /\ UNCHANGED <<disk, model>>

Next == main \/ wsgi \/ receive \/ home \/ health \/ predict \/ reply

Spec == Init /\ [][Next]_vars

(* ------------------------------- claims -------------------------------- *)
\* The vocabulary of the claims, written out independently of the handler.
LabelTable == <<"Setosa", "Versicolor", "Virginica">>
FieldOrder == <<"sepal_length", "sepal_width", "petal_length", "petal_width">>
FieldSet == {"sepal_length", "sepal_width", "petal_length", "petal_width"}

\* /predict has produced its response
Handled == pc = "responded" /\ request[1].route = "/predict"
Loaded == model # None
Req == request[1].body
Resp == response[1]
IsError(r, status, text) ==
    /\ r.status = status
    /\ "error" \in DOMAIN r.body
    /\ r.body.error.text = text

\* the body is a JSON object / holds all four required fields
IsObject(b) == b.kind = "object"
AllPresent(b) == IsObject(b) /\ FieldSet \subseteq DOMAIN b.val
MissingOf(b) == SelectSeq(FieldOrder, LAMBDA f : f \notin DOMAIN b.val)
\* a field value float() turns into a number, and that number
IsNumeric(x) == x.t \in {"num", "numstr", "nan"}
IsReal(x) == x.t \in {"num", "numstr"}
AllNumeric(b) == AllPresent(b) /\ \A f \in FieldSet : IsNumeric(b.val[f])
AllPositive(b) ==
    AllPresent(b) /\ \A f \in FieldSet : IsReal(b.val[f]) /\ b.val[f].v > 0
SomeNonPositive(b) == \E f \in FieldSet : IsReal(b.val[f]) /\ b.val[f].v <= 0

\* the five checks of the claim, as properties of the request
Fails1 == ~Loaded
Fails2(b) == b.kind \in {"absent", "malformed"} \/ ~Truthy(b)
Fails3(b) == ~AllPresent(b) /\ ~(b.kind = "array" /\ FieldSet \subseteq Range(b.val))
Fails4(b) == ~AllNumeric(b)
Fails5(b) == SomeNonPositive(b)

\* C1: /predict answers with the response of the earliest violated check
\* among (1) model not loaded, (2) no data, (3) missing fields, (4) a field
\* that is not a number, (5) a field <= 0; with no model loaded it is always
\* the 500 model-not-loaded error.
C1_EarliestCheckDecides ==
    Handled =>
        IF Fails1 THEN Resp = Error(500, MsgNotLoaded, <<>>)
        ELSE IF Fails2(Req) THEN IsError(Resp, 400, MsgNoData)
        ELSE IF Fails3(Req) THEN IsError(Resp, 400, MsgMissing)
        ELSE IF Fails4(Req) THEN IsError(Resp, 400, MsgNumbers)
        ELSE IF Fails5(Req) THEN IsError(Resp, 400, MsgPositive)
        ELSE TRUE

\* the artifact honours the classify contract: it returns a label 0, 1 or 2
ThreeClass == Loaded /\ model[1].classes # {} /\ model[1].classes \subseteq 0..2

C3_ServesWithoutModel ==
    (pc # "init" /\ disk.state # "present") =>
        /\ pc # "exited"
        /\ (pc = "responded" /\ request[1].route = "/health") =>
              (Resp.status = 200 /\ Resp.body.model_status = "not loaded")
        /\ Handled => Resp = Error(500, MsgNotLoaded, <<>>)

\* C4: with the model loaded, a request without a body or with a body that
\* is not parseable JSON gets 400 'No JSON data provided'.
C4_NoBodyIsBadRequest ==
    (Handled /\ Loaded /\ Req.kind \in {"absent", "malformed"}) =>
        Resp = Error(400, MsgNoData, <<>>)

\* C5 as claimed: with the model loaded and a JSON object as body, whenever
\* some required fields are absent the response is 400, lists exactly the
\* absent names in required-field order, and carries all required names.
C5_Original ==
    (Handled /\ Loaded /\ IsObject(Req) /\ MissingOf(Req) # <<>>) =>
        /\ IsError(Resp, 400, MsgMissing)
        /\ Resp.body.error.arg = MissingOf(Req)
        /\ Resp.body.required_fields = FieldOrder

\* C5 amended: the same for a JSON object that is not empty.
C5_MissingFieldsListed ==
    (Handled /\ Loaded /\ IsObject(Req) /\ DOMAIN Req.val # {}
        /\ MissingOf(Req) # <<>>) =>
        /\ IsError(Resp, 400, MsgMissing)
        /\ Resp.body.error.arg = MissingOf(Req)
        /\ Resp.body.required_fields = FieldOrder

C5_Witness ==
    /\ Handled /\ Loaded /\ IsObject(Req)
    /\ DOMAIN Req.val = {"sepal_length", "petal_length"}
    /\ Resp.status = 400
    /\ Resp.body.error.arg = <<"sepal_width", "petal_width">>

\* C6: with the model loaded and all four fields present, a value float()
\* cannot convert gives 400 'All input values must be valid numbers' and the
\* classifier is not called.
C6_NonNumericRejected ==
    (Handled /\ Loaded /\ AllPresent(Req) /\ ~AllNumeric(Req)) =>
        /\ Resp = Error(400, MsgNumbers, <<>>)
        /\ ~oracle.cls.called

\* C7: with the model loaded and four numeric fields, a zero or negative
\* value gives 400 'All measurements must be positive numbers' without the
\* classifier being called, and four positive values never get that error.
C7_PositivityCheck ==
    (Handled /\ Loaded /\ AllNumeric(Req)) =>
        /\ SomeNonPositive(Req) =>
              (Resp = Error(400, MsgPositive, <<>>) /\ ~oracle.cls.called)
        /\ AllPositive(Req) => ~IsError(Resp, 400, MsgPositive)

C7_Witness ==
    /\ Handled /\ Loaded /\ AllNumeric(Req)
    /\ Req.val["sepal_length"].v = 1 /\ Req.val["sepal_length"].t = "num"
    /\ Req.val["petal_width"] = [t |-> "num", v |-> 0]
    /\ \A f \in FieldSet \ {"petal_width"} : Req.val[f].v > 0
    /\ Resp.status = 400

C9_FailuresAreInternalErrors ==
    Handled =>
        /\ (oracle.cls.called /\ (oracle.cls.raised \/ oracle.cls.label \notin 0..2))
              => (Resp.status = 500 /\ "error" \in DOMAIN Resp.body)
        /\ Resp.status # 200 =>
              (Resp.status \in {400, 500} /\ "error" \in DOMAIN Resp.body)
        /\ ENABLED reply

\* C10: a classification that succeeded is answered with 200 whatever the
\* probability step does; the confidence is the largest per-class
\* probability when the model estimates probabilities, and null otherwise.
C10_ConfidenceIsMaxOrNull ==
    (Handled /\ oracle.cls.called /\ ~oracle.cls.raised
        /\ oracle.cls.label \in 0..2) =>
        /\ Resp.status = 200
        /\ model[1].proba =>
              /\ oracle.pr # None
              /\ \E i \in DOMAIN oracle.pr[1] :
                    /\ Resp.body.confidence = <<oracle.pr[1][i]>>
                    /\ \A j \in DOMAIN oracle.pr[1] : oracle.pr[1][j] <= oracle.pr[1][i]
        /\ ~model[1].proba => Resp.body.confidence = <<>>

C10_Witness ==
    /\ Handled /\ Loaded /\ model[1].proba
    /\ Resp.status = 200
    /\ oracle.pr[1][1] > 0 /\ oracle.pr[1][1] < oracle.pr[1][3]
    /\ Resp.body.confidence = <<oracle.pr[1][3]>>

====
